---- MODULE Spec2Model ----
(***************************************************************************)
(* A model of Macro/Imrohoroglu1989/Imrohoroglu1989.ipynb: the model       *)
(* configuration (BusinessCycleModel), the value-iteration solver          *)
(* (util, T, solve_model_value_iteration), the policy(Euler)-iteration     *)
(* solver (euler_diff, K, solve_model_time_iter), the direct-iteration     *)
(* stationary distribution (dist_iter, solve_invariant_dist) and the       *)
(* welfare comparators.                                                    *)
(*                                                                         *)
(* Arithmetic.  The notebook computes in floating point.  The model        *)
(* computes the same expressions exactly, on rationals held as integer     *)
(* numerators over a denominator that is fixed for one solve:              *)
(*   assets and incomes   over  CDen(bcm)   (consumption units)            *)
(*   utilities            over  UDen(bcm)                                  *)
(*   values v, v_new      over  UDen(bcm) * VDen(bcm)                      *)
(*   probabilities P      over  PRes                                       *)
(*   the PMF              over  MassDen(bcm)                               *)
(* Inputs are drawn from small sets for which these are exact.             *)
(***************************************************************************)
EXTENDS Integers, Sequences, FiniteSets, TLC

(* ------------------------------ bounds --------------------------------- *)
\* the largest max_iter a solver is called with
MaxIter == 2
\* the largest grid resolution Na
MaxNa == 3
\* probabilities are the multiples of 1/PRes
PRes == 2
\* lattice points of consumption per smallest unit of income
TickRes == 2

(* --------------------------- integer helpers --------------------------- *)
Abs(x) == IF x < 0 THEN -x ELSE x

Max2(x, y) == IF x >= y THEN x ELSE y

RECURSIVE Pow(_, _)
Pow(b, e) == IF e <= 0 THEN 1 ELSE b * Pow(b, e - 1)

RECURSIVE Gcd(_, _)
Gcd(x, y) == IF y = 0 THEN Abs(x) ELSE Gcd(y, x % y)

Lcm(x, y) == (x \div Gcd(x, y)) * y

RECURSIVE SetGcd(_)
SetGcd(S) == IF S = {} THEN 0
             ELSE LET x == CHOOSE z \in S : TRUE IN Gcd(x, SetGcd(S \ {x}))

RECURSIVE SetLcm(_)
SetLcm(S) == IF S = {} THEN 1
             ELSE LET x == CHOOSE z \in S : TRUE IN Lcm(x, SetLcm(S \ {x}))

RECURSIVE SetMax(_)
SetMax(S) == LET x == CHOOSE z \in S : TRUE
             IN IF S = {x} THEN x ELSE Max2(x, SetMax(S \ {x}))

RECURSIVE Table(_, _)
\* the array f[0..n], filled slot by slot
Table(f, n) == IF n <= 0 THEN (0 :> f[0]) ELSE Table(f, n - 1) @@ (n :> f[n])

RECURSIVE TableOn(_, _, _)
\* the array f[lo..hi], filled slot by slot
TableOn(f, lo, hi) == IF hi <= lo THEN (lo :> f[lo])
                      ELSE TableOn(f, lo, hi - 1) @@ (hi :> f[hi])

RECURSIVE SumTo(_, _)
\* f[0] + ... + f[n]
SumTo(f, n) == IF n < 0 THEN 0 ELSE f[n] + SumTo(f, n - 1)

(* ------------------------ model configuration -------------------------- *)
\* a Python sequence as a 0-indexed array
Array(seq) == [k \in 0 .. Len(seq) - 1 |-> seq[k + 1]]

\* the two literal transition matrices of the constructor, in 1/10000
P_business_cycle == Array(<< Array(<<9141,  234,  587,   38>>),
                             Array(<<5625, 3750,  269,  356>>),
                             Array(<< 608,   16, 8813,  563>>),
                             Array(<< 375,  250, 4031, 5344>>) >>)

P_no_business_cycle == Array(<< Array(<<9565, 435>>), Array(<<5000, 5000>>) >>)

\* np.linspace(a_min, a_max, Na), in units of 1/GridDen(Na); 0-indexed
GridDen(Na) == IF Na >= 2 THEN Na - 1 ELSE 1

linspace(a_min, a_max, Na) ==
    [k \in 0 .. (Na - 1) |->
        IF Na = 1 THEN a_min ELSE a_min * (Na - 1) + k * (a_max - a_min)]

\* weeks in a year, and the periods for which (1+r)^(period/52) is rational
WeeksPerYear == 52

\* BusinessCycleModel.__init__.  theta and beta are <<numerator, denominator>>,
\* period is a multiple of 52 weeks.  y_vals is held in units of 1/theta[2].
\* 52 / period raises ZeroDivisionError for period = 0, np.linspace raises
\* ValueError for a negative number of samples, and nothing else in the
\* constructor raises: no argument is validated.
BusinessCycleModel(period, r_save, r_borrow, y, theta, beta, sigma, business_cycle, a_max, a_min, Na) ==
    IF period = 0
    THEN [raised |-> "ZeroDivisionError"]
    ELSE IF Na < 0
    THEN [raised |-> "ValueError"]
    ELSE [raised   |-> "none",
          beta     |-> beta,
          R_save   |-> 1 + r_save,
          R_borrow |-> Pow(1 + r_borrow, period \div WeeksPerYear),
          sigma    |-> sigma,
          Na       |-> Na,
          a_min    |-> a_min,
          a_max    |-> a_max,
          P        |-> IF business_cycle THEN P_business_cycle
                                         ELSE P_no_business_cycle,
          PDen     |-> 10000,
          Ns       |-> IF business_cycle THEN 4 ELSE 2,
          a_vals   |-> linspace(a_min, a_max, Na),
          YDen     |-> theta[2],
          y_vals   |-> [s \in 0 .. (IF business_cycle THEN 3 ELSE 1) |->
                          IF s % 2 = 0 THEN y * theta[2] ELSE y * theta[1]]]

\* a transition matrix with entries in 1/PRes: every row sums to 1
StochasticRows == {r \in [0 .. 1 -> 0 .. PRes] : r[0] + r[1] = PRes}

StochasticMatrices == [0 .. 1 -> StochasticRows]

(* ------------------------------ state ---------------------------------- *)
VARIABLES
    bcm,        \* the model configuration handed to the solver
    pc,         \* where the running call is
    tol,        \* the solver's tol argument, in numerator units of its error
    max_iter,   \* the solver's max_iter argument
    verbose,    \* the solver's verbose argument
    i,          \* the loop counter
    error,      \* the loop's error, in the same units as tol
    c,          \* util()'s consumption table c[a0][s0][a1], over CDen(bcm)
    u,          \* util()'s utility table u[a0][s0][a1], over UDen(bcm)
    v,          \* value function, over UDen(bcm) * VDen(bcm)
    v_new,      \* T's output value function
    policy,     \* T's output policy (Unbound before the first sweep)
    gamma,      \* T's output consumption, over CDen(bcm)
    pmf,        \* solve_invariant_dist's pmf, over MassDen(bcm)
    pmf_new,    \* dist_iter's pmf_new while a sweep is written cell by cell
    work,       \* the progress of each (a0, s0) of a sweep run cell by cell
    overlap,    \* history: two updates of one slot were in flight together
    out,        \* the final reports printed so far
    ret,        \* what the call returned or raised
    gamma_new,  \* K's output consumption policy, in lattice units
    asset_policy, \* K's output asset policy, in lattice units
    v_bc,       \* expected discounted utility with business cycles
    v_nbc,      \* expected discounted utility without business cycles
    mu          \* the consumption compensation

vars == <<bcm, pc, tol, max_iter, verbose, i, error, c, u, v, v_new, policy,
          gamma, pmf, pmf_new, work, overlap, out, ret, gamma_new,
          asset_policy, v_bc, v_nbc, mu>>

\* what only the cell-by-cell sweeps use
parVars == <<pmf_new, work, overlap>>

\* what only time iteration uses
tiVars == <<gamma_new, asset_policy>>

\* what only the welfare comparison uses
welfareVars == <<v_bc, v_nbc, mu>>

\* a local variable that has not been assigned yet
Unbound == << >>

IsBound(x) == DOMAIN x # {}

NoReturn == [kind |-> "none", exc |-> "none"]

Returned == [kind |-> "returned", exc |-> "none"]

Raised(e) == [kind |-> "raised", exc |-> e]

Failed == "Failed to converge!"

Converged == "Converged in i iterations."

(* --------------------- utility and budget evaluator -------------------- *)
Cells(m) == (0 .. m.Na - 1) \X (0 .. m.Ns - 1)

\* the denominator of consumption
CDen(m) == GridDen(m.Na) * m.YDen * m.R_save * m.R_borrow

\* R_func: the return on the asset position a
R_func(m, a) == IF a >= 0 THEN m.R_save ELSE m.R_borrow

\* c0 = a_vals[a0] + y_vals[s0] - a_vals[a1]/R, over CDen(m)
Budget(m, a0, s0, a1) ==
    LET R == R_func(m, m.a_vals[a1])
    IN  m.a_vals[a0] * (m.YDen * m.R_save * m.R_borrow)
      + m.y_vals[s0] * (GridDen(m.Na) * m.R_save * m.R_borrow)
      - m.a_vals[a1] * (m.YDen * ((m.R_save * m.R_borrow) \div R))

\* the positive consumption levels of the table
PosC(m) == {Budget(m, x[1][1], x[1][2], x[2]) :
               x \in {z \in Cells(m) \X (0 .. m.Na - 1) :
                         Budget(m, z[1][1], z[1][2], z[2]) > 0}}

\* the denominator of utility: c^(1-sigma)/(1-sigma) at c = n/CDen is
\*   n^(1-sigma) / ((1-sigma) * CDen^(1-sigma))                  for sigma < 1
\*   -CDen^(sigma-1) / ((sigma-1) * n^(sigma-1))                  for sigma > 1
\* and the second is brought over the least common multiple of the n's
CLcm(m) == LET g == SetGcd(PosC(m)) IN g * SetLcm({n \div g : n \in PosC(m)})

UDen(m) == IF m.sigma < 1
           THEN (1 - m.sigma) * Pow(CDen(m), 1 - m.sigma)
           ELSE (m.sigma - 1) * Pow(CLcm(m), m.sigma - 1)

\* U_func(c, sigma) for sigma # 1 at c = n/CDen(m), over UDen(m), L being
\* CLcm(m); ln(c), the sigma = 1 branch, is not a rational function and no
\* solver here is run with sigma = 1
U_func(m, L, n) == IF m.sigma < 1
                   THEN Pow(n, 1 - m.sigma)
                   ELSE - Pow(CDen(m), m.sigma - 1) * Pow(L \div n, m.sigma - 1)

\* the utility of an infeasible choice (-1e20 in the source)
Sentinel == -1000000

\* util(): the tables c and u
util(m) ==
    LET L == CLcm(m)
        ct == [a0 \in 0 .. m.Na - 1 |-> [s0 \in 0 .. m.Ns - 1 |->
                 [a1 \in 0 .. m.Na - 1 |-> Budget(m, a0, s0, a1)]]]
    IN [c |-> ct,
        u |-> [a0 \in 0 .. m.Na - 1 |-> [s0 \in 0 .. m.Ns - 1 |->
                 [a1 \in 0 .. m.Na - 1 |->
                    IF ct[a0][s0][a1] <= 0 THEN Sentinel
                    ELSE U_func(m, L, ct[a0][s0][a1])]]]]

(* ------------------------- the Bellman operator ------------------------ *)
\* values are held over UDen(m) * VDen(m): one sweep divides by the
\* denominators of beta and P, and a solve runs at most MaxIter sweeps
StepDen(m) == m.beta[2] * m.PDen

VDen(m) == Pow(StepDen(m), MaxIter)

\* np.argwhere(c[a0,s0,:] > 0): the indices with positive consumption
Feasible(m, ct, a0, s0) == {a1 \in 0 .. m.Na - 1 : ct[a0][s0][a1] > 0}

\* (mutant) the transition matrix is read by column: P[:, s0] @ v[a1,:]
ExpectTransposed(m, vv, s0, a1) ==
    SumTo([s1 \in 0 .. m.Ns - 1 |-> m.P[s1][s0] * vv[a1][s1]], m.Ns - 1)

\* P[s0] @ v[a1,:]
Expect(m, vv, s0, a1) ==
    SumTo([s1 \in 0 .. m.Ns - 1 |-> m.P[s0][s1] * vv[a1][s1]], m.Ns - 1)

\* v_vals[a1] = u0 + beta * P[s0] @ v[a1,:]
Candidate(m, vv, ut, a0, s0, a1) ==
    ut[a0][s0][a1] * VDen(m)
      + (m.beta[1] * Expect(m, vv, s0, a1)) \div StepDen(m)

\* (mutant) np.argmin in place of np.argmax
argmin(f, n) ==
    CHOOSE k \in 0 .. n :
        /\ \A j \in 0 .. n : f[k] <= f[j]
        /\ \A j \in 0 .. n : f[j] = f[k] => k <= j

\* np.argmax(f) of f[0..n]: the first index of the maximum
argmax(f, n) ==
    CHOOSE k \in 0 .. n :
        /\ \A j \in 0 .. n : f[k] >= f[j]
        /\ \A j \in 0 .. n : f[j] = f[k] => k <= j

\* the body of T's loop for one (a0, s0): Na1 is the largest a1 with c0 > 0
\* (.max() of an empty array raises ValueError), v_vals holds the candidates
\* 0..Na1, np.argmax is the first index of the maximum
BellmanCell(m, vv, ut, ct, a0, s0) ==
    IF Feasible(m, ct, a0, s0) = {}
    THEN [raised |-> TRUE, v_new |-> 0, policy |-> 0, gamma |-> 0]
    ELSE LET Na1 == SetMax(Feasible(m, ct, a0, s0))
             v_vals == Table([a1 \in 0 .. Na1 |->
                                Candidate(m, vv, ut, a0, s0, a1)], Na1)
             best == SetMax({v_vals[a1] : a1 \in 0 .. Na1})
             a1 == argmax(v_vals, Na1)
         IN [raised |-> FALSE,
             v_new  |-> best,
             policy |-> a1,
             gamma  |-> Budget(m, a0, s0, a1)]

\* T(v, u, c): every cell from the input v
T(m, vv, ut, ct) ==
    LET cell == Table([k \in 0 .. m.Na * m.Ns - 1 |->
                         BellmanCell(m, vv, ut, ct, k \div m.Ns, k % m.Ns)],
                      m.Na * m.Ns - 1)
    IN [raised |-> \E k \in 0 .. m.Na * m.Ns - 1 : cell[k].raised,
        v_new  |-> [a0 \in 0 .. m.Na - 1 |-> [s0 \in 0 .. m.Ns - 1 |->
                      cell[a0 * m.Ns + s0].v_new]],
        policy |-> [a0 \in 0 .. m.Na - 1 |-> [s0 \in 0 .. m.Ns - 1 |->
                      cell[a0 * m.Ns + s0].policy]],
        gamma  |-> [a0 \in 0 .. m.Na - 1 |-> [s0 \in 0 .. m.Ns - 1 |->
                      cell[a0 * m.Ns + s0].gamma]]]

\* np.max(np.abs(x - y)) over the grid
SupDist(m, x, y) == SetMax({Abs(x[z[1]][z[2]] - y[z[1]][z[2]]) : z \in Cells(m)})

(* -------------------- solve_model_value_iteration ---------------------- *)
\* 1, in the units of the value function
ValueOne(m) == UDen(m) * VDen(m)

\* lines 197-205: the tables, the counter, the error and the zero value
VIStart ==
    /\ pc = "vi_start"
    /\ LET t == util(bcm) IN c' = t.c /\ u' = t.u
    /\ i' = 0
    /\ error' = tol + ValueOne(bcm)
    /\ v' = [a0 \in 0 .. bcm.Na - 1 |-> [s0 \in 0 .. bcm.Ns - 1 |-> 0]]
    /\ pc' = "vi_loop"
    /\ UNCHANGED <<bcm, tol, max_iter, verbose, v_new, policy, gamma, pmf,
                   parVars, out, ret>>
    /\ UNCHANGED <<tiVars, welfareVars>>

\* one pass of the while loop, lines 207-213
VISweep ==
    /\ pc = "vi_loop"
    /\ i < max_iter /\ error > tol
    /\ LET r == T(bcm, v, u, c)
       IN IF r.raised
          THEN /\ pc' = "done"
               /\ ret' = Raised("ValueError")
               /\ UNCHANGED <<v, v_new, policy, gamma, error, i>>
          ELSE /\ v_new' = r.v_new
               /\ policy' = r.policy
               /\ gamma' = r.gamma
               /\ error' = SupDist(bcm, v, r.v_new)
               /\ i' = i + 1
               /\ v' = r.v_new
               /\ UNCHANGED <<pc, ret>>
    /\ UNCHANGED <<bcm, tol, max_iter, verbose, c, u, pmf, parVars, out>>
    /\ UNCHANGED <<tiVars, welfareVars>>

\* lines 215-221: the reports and the return; policy.astype(int) of a policy
\* that was never assigned raises UnboundLocalError
VIExit ==
    /\ pc = "vi_loop"
    /\ ~(i < max_iter /\ error > tol)
    /\ out' = out \cup (IF i = max_iter THEN {Failed} ELSE {})
                  \cup (IF i < max_iter /\ verbose THEN {Converged} ELSE {})
    /\ ret' = IF IsBound(policy) THEN Returned ELSE Raised("UnboundLocalError")
    /\ pc' = "vi_done"
    /\ UNCHANGED <<bcm, tol, max_iter, verbose, i, error, c, u, v, v_new,
                   policy, gamma, pmf, parVars>>
    /\ UNCHANGED <<tiVars, welfareVars>>

(* ----------------------- solve_invariant_dist -------------------------- *)
\* the PMF is held over MassDen(m): the uniform start divides by Na*Ns and
\* one sweep by the denominator of P
MassDen(m) == m.Na * m.Ns * Pow(m.PDen, MaxIter)

\* np.ones_like(policy) * (1/(Na*Ns))
UniformPmf(m) == [a0 \in 0 .. m.Na - 1 |-> [s0 \in 0 .. m.Ns - 1 |->
                    Pow(m.PDen, MaxIter)]]

\* (mutant) pmf_new[a1,s1] = x
Overwrite(old, x) == x

\* pmf_new[a1,s1] += x: the slot's new content
Accumulate(old, x) == old + x

\* (mutant) the mass is moved without its transition probability
MassMovedUnweighted(m, pm, a0, s0, s1) == pm[a0][s0]

\* P[s0,s1] * pmf[a0,s0]
MassMoved(m, pm, a0, s0, s1) == (m.P[s0][s1] * pm[a0][s0]) \div m.PDen

\* (mutant) the mass of (a0, s0) is left on a0 instead of moved to a1
MassUpdateStay(m, pol, pm, acc, a0, s0, s1) ==
    [acc EXCEPT ![a0][s1] = Accumulate(@, MassMoved(m, pm, a0, s0, s1))]

\* line 570-572 for one (a0, s0, s1): pmf_new[a1,s1] += P[s0,s1] * pmf[a0,s0]
MassUpdate(m, pol, pm, acc, a0, s0, s1) ==
    [acc EXCEPT ![pol[a0][s0]][s1] =
        Accumulate(@, MassMoved(m, pm, a0, s0, s1))]

\* the k-th (a0, s0, s1) of the three nested loops
Triple(m, k) == <<k \div (m.Ns * m.Ns), (k \div m.Ns) % m.Ns, k % m.Ns>>

NTriples(m) == m.Na * m.Ns * m.Ns

RECURSIVE DistFold(_, _, _, _)
\* pmf_new after the updates 0..k of the sweep, from np.zeros_like(pmf)
DistFold(m, pol, pm, k) ==
    IF k < 0
    THEN [a0 \in 0 .. m.Na - 1 |-> [s0 \in 0 .. m.Ns - 1 |-> 0]]
    ELSE MassUpdate(m, pol, pm, DistFold(m, pol, pm, k - 1),
                    Triple(m, k)[1], Triple(m, k)[2], Triple(m, k)[3])

\* dist_iter(pmf): under plain @njit the pranges are sequential loops
dist_iter(m, pol, pm) == DistFold(m, pol, pm, NTriples(m) - 1)

\* the total mass of a PMF
Mass(m, pm) ==
    SumTo([a0 \in 0 .. m.Na - 1 |-> SumTo(pm[a0], m.Ns - 1)], m.Na - 1)

\* lines 554-562: the counter, the error and the uniform PMF
DistStart ==
    /\ pc = "dist_start"
    /\ i' = 0
    /\ error' = MassDen(bcm) + tol
    /\ pmf' = UniformPmf(bcm)
    /\ pc' = "dist_loop"
    /\ UNCHANGED <<bcm, tol, max_iter, verbose, c, u, v, v_new, policy,
                   gamma, parVars, out, ret>>
    /\ UNCHANGED <<tiVars, welfareVars>>

\* (mutant) a pass of the while loop that leaves the counter alone
DistSweepNoCount ==
    /\ pc = "dist_loop"
    /\ i < max_iter /\ error > tol
    /\ pmf_new' = dist_iter(bcm, policy, pmf)
    /\ error' = SupDist(bcm, pmf, pmf_new')
    /\ pmf' = pmf_new'
    /\ UNCHANGED <<bcm, pc, tol, max_iter, verbose, i, c, u, v, v_new, policy,
                   gamma, work, overlap, out, ret>>
    /\ UNCHANGED <<tiVars, welfareVars>>

\* one pass of the while loop, lines 575-582
DistSweep ==
    /\ pc = "dist_loop"
    /\ i < max_iter /\ error > tol
    /\ pmf_new' = dist_iter(bcm, policy, pmf)
    /\ error' = SupDist(bcm, pmf, pmf_new')
    /\ i' = i + 1
    /\ pmf' = pmf_new'
    /\ UNCHANGED <<bcm, pc, tol, max_iter, verbose, c, u, v, v_new, policy,
                   gamma, work, overlap, out, ret>>
    /\ UNCHANGED <<tiVars, welfareVars>>

\* lines 584-590: the reports and the return
DistExit ==
    /\ pc = "dist_loop"
    /\ ~(i < max_iter /\ error > tol)
    /\ out' = out \cup (IF i = max_iter THEN {Failed} ELSE {})
                  \cup (IF i < max_iter /\ verbose THEN {Converged} ELSE {})
    /\ ret' = Returned
    /\ pc' = "dist_done"
    /\ UNCHANGED <<bcm, tol, max_iter, verbose, i, error, c, u, v, v_new,
                   policy, gamma, pmf, parVars>>
    /\ UNCHANGED <<tiVars, welfareVars>>

\* lines 600-601 and 686-687: the policy returned by value iteration is
\* handed to solve_invariant_dist
FeedPolicy ==
    /\ pc = "vi_done"
    /\ ret.kind = "returned"
    /\ pc' = "dist_start"
    /\ tol' \in {0, MassDen(bcm) \div 4}
    /\ out' = {}
    /\ ret' = NoReturn
    /\ UNCHANGED <<bcm, max_iter, verbose, i, error, c, u, v, v_new, policy,
                   gamma, pmf, parVars>>
    /\ UNCHANGED <<tiVars, welfareVars>>

(* ------------------------------ inputs --------------------------------- *)
\* the configurations the solvers are run on: a two-state economy on a grid
\* of Na points of step 1 from a_min, with P replaced by a drawn matrix; the
\* borrowing rate only matters on a grid with negative assets
Configs ==
    {[BusinessCycleModel(WeeksPerYear, 0, rb, y, <<1, 2>>, <<1, 2>>, sg,
                         FALSE, amin + (na - 1), amin, na)
        EXCEPT !.P = p, !.PDen = PRes] :
        rb \in {0, 1}, sg \in {0, 2}, amin \in {-1, 0}, na \in 2 .. MaxNa,
        y \in {1, 2}, p \in StochasticMatrices}

\* the tolerances a value iteration is called with, in units of 1/4
TolQuarters == {0, 400}

Init ==
    /\ bcm \in Configs
    /\ pc = "vi_start"
    /\ tol \in {(q * ValueOne(bcm)) \div 4 : q \in TolQuarters}
    /\ max_iter \in 0 .. MaxIter
    /\ verbose \in BOOLEAN
    /\ i = 0
    /\ error = 0
    /\ c = Unbound /\ u = Unbound /\ v = Unbound /\ v_new = Unbound
    /\ policy = Unbound /\ gamma = Unbound /\ pmf = Unbound
    /\ pmf_new = Unbound /\ work = Unbound /\ overlap = FALSE
    /\ out = {}
    /\ ret = NoReturn
    /\ gamma_new = Unbound /\ asset_policy = Unbound
    /\ v_bc = Unbound /\ v_nbc = Unbound /\ mu = Unbound

Next == VIStart \/ VISweep \/ VIExit \/ FeedPolicy
          \/ DistStart \/ DistSweep \/ DistExit

Spec == Init /\ [][Next]_vars

(* ------------- distribution iteration over any policy ----------------- *)
\* the grid resolutions distribution iteration is run on by itself
DistNas == {2, 3}

\* an economy for distribution iteration: only Na, Ns and P are read
DistConfig(na, p) ==
    [BusinessCycleModel(WeeksPerYear, 0, 0, 2, <<1, 2>>, <<1, 2>>, 2, FALSE,
                        na - 1, 0, na)
       EXCEPT !.P = p, !.PDen = PRes]

\* every policy with entries in 0..Na-1
Policies(m) == [0 .. m.Na - 1 -> [0 .. m.Ns - 1 -> 0 .. m.Na - 1]]

InitDist ==
    /\ bcm \in {DistConfig(na, p) : na \in DistNas, p \in StochasticMatrices}
    /\ policy \in Policies(bcm)
    /\ pc = "dist_start"
    /\ tol \in {0, MassDen(bcm) \div 4}
    /\ max_iter \in 0 .. MaxIter
    /\ verbose = TRUE
    /\ i = 0
    /\ error = 0
    /\ c = Unbound /\ u = Unbound /\ v = Unbound /\ v_new = Unbound
    /\ gamma = Unbound /\ pmf = Unbound
    /\ pmf_new = Unbound /\ work = Unbound /\ overlap = FALSE
    /\ out = {}
    /\ ret = NoReturn
    /\ gamma_new = Unbound /\ asset_policy = Unbound
    /\ v_bc = Unbound /\ v_nbc = Unbound /\ mu = Unbound

NextDist == DistStart \/ DistSweep \/ DistExit

SpecDist == InitDist /\ [][NextDist]_vars

\* C1: starting from the uniform PMF, for every P whose rows sum to 1 and
\* every policy with entries in 0..Na-1, the entries of the PMF sum to 1
\* after every sweep of dist_iter and in the PMF that is returned.
C1_MassConserved ==
    pc \in {"dist_loop", "dist_done"} => Mass(bcm, pmf) = MassDen(bcm)

\* two sweeps have moved the mass away from the uniform PMF and emptied a cell
C1_Witness ==
    /\ pc = "dist_loop"
    /\ i >= 2
    /\ pmf # UniformPmf(bcm)
    /\ \E x \in Cells(bcm) : pmf[x[1]][x[2]] = 0
    /\ \E s0 \in 0 .. bcm.Ns - 1 : bcm.P[s0][0] # bcm.P[s0][1]

(* ------------- one sweep of dist_iter run by concurrent workers -------- *)
\* dist_iter is compiled with plain @njit, where prange is range.  The
\* specification below runs the (a0, s0) cells of one sweep on concurrent
\* workers instead: each cell walks its s1 loop, and its `+=` is a read of the
\* slot followed, some steps later, by a write of the sum.
CellIds(m) == 0 .. m.Na * m.Ns - 1

CellA(m, k) == k \div m.Ns

CellS(m, k) == k % m.Ns

Idle == [s1 |-> 0, holding |-> FALSE, reg |-> 0]

InitPar ==
    /\ bcm \in {DistConfig(2, p) : p \in StochasticMatrices}
    /\ policy \in Policies(bcm)
    /\ pc = "par_sweep"
    /\ tol = 0
    /\ max_iter = 1
    /\ verbose = TRUE
    /\ i = 0
    /\ error = MassDen(bcm) + tol
    /\ c = Unbound /\ u = Unbound /\ v = Unbound /\ v_new = Unbound
    /\ gamma = Unbound
    /\ pmf = UniformPmf(bcm)
    /\ pmf_new = [a0 \in 0 .. bcm.Na - 1 |-> [s0 \in 0 .. bcm.Ns - 1 |-> 0]]
    /\ work = [k \in CellIds(bcm) |-> Idle]
    /\ overlap = FALSE
    /\ out = {}
    /\ ret = NoReturn
    /\ gamma_new = Unbound /\ asset_policy = Unbound
    /\ v_bc = Unbound /\ v_nbc = Unbound /\ mu = Unbound

\* the slot cell k is about to update
Slot(k) == <<policy[CellA(bcm, k)][CellS(bcm, k)], work[k].s1>>

\* the read half of line 572 for cell k
ParRead(k) ==
    /\ pc = "par_sweep"
    /\ work[k].s1 < bcm.Ns
    /\ ~work[k].holding
    /\ work' = [work EXCEPT ![k].holding = TRUE,
                            ![k].reg = pmf_new[Slot(k)[1]][Slot(k)[2]]]
    /\ overlap' = (overlap \/ \E j \in CellIds(bcm) \ {k} :
                                 work[j].holding /\ Slot(j) = Slot(k))
    /\ UNCHANGED <<bcm, pc, tol, max_iter, verbose, i, error, c, u, v, v_new,
                   policy, gamma, pmf, pmf_new, out, ret>>
    /\ UNCHANGED <<tiVars, welfareVars>>

\* the write half of line 572 for cell k, and the step of its s1 loop
ParWrite(k) ==
    /\ pc = "par_sweep"
    /\ work[k].holding
    /\ pmf_new' = [pmf_new EXCEPT ![Slot(k)[1]][Slot(k)[2]] =
                      Accumulate(work[k].reg,
                                 MassMoved(bcm, pmf, CellA(bcm, k),
                                           CellS(bcm, k), work[k].s1))]
    /\ work' = [work EXCEPT ![k] = [s1 |-> @.s1 + 1, holding |-> FALSE,
                                    reg |-> 0]]
    /\ UNCHANGED <<bcm, pc, tol, max_iter, verbose, i, error, c, u, v, v_new,
                   policy, gamma, pmf, overlap, out, ret>>
    /\ UNCHANGED <<tiVars, welfareVars>>

\* line 573: every cell has finished and pmf_new is returned
ParJoin ==
    /\ pc = "par_sweep"
    /\ \A k \in CellIds(bcm) : work[k].s1 = bcm.Ns
    /\ pc' = "par_done"
    /\ UNCHANGED <<bcm, tol, max_iter, verbose, i, error, c, u, v, v_new,
                   policy, gamma, pmf, parVars, out, ret>>
    /\ UNCHANGED <<tiVars, welfareVars>>

NextPar == (\E k \in CellIds(bcm) : ParRead(k))
             \/ (\E k \in CellIds(bcm) : ParWrite(k))
             \/ ParJoin

SpecPar == InitPar /\ [][NextPar]_vars

\* C4 as stated: the updates of one sweep, run in any order or interleaving,
\* interleaved read-modify-write steps of different cells included, leave the
\* pmf_new of the sequential sweep.
C4_AnyInterleavingSameResult ==
    pc = "par_done" => pmf_new = dist_iter(bcm, policy, pmf)

\* C4 as amended: two cells with the same policy[a0,s0] accumulate into the
\* same slot; the updates of one sweep, run in any order in which no two
\* updates of one slot are in flight together, leave the pmf_new of the
\* sequential sweep.
C4_AtomicUpdatesSameResult ==
    (pc = "par_done" /\ ~overlap) => pmf_new = dist_iter(bcm, policy, pmf)

\* a sweep has finished without overlapping updates although two cells share
\* a slot and the workers were interleaved
C4_Witness ==
    /\ pc = "par_done"
    /\ ~overlap
    /\ \E j \in CellIds(bcm), k \in CellIds(bcm) :
         /\ j # k
         /\ policy[CellA(bcm, j)][CellS(bcm, j)]
              = policy[CellA(bcm, k)][CellS(bcm, k)]
    /\ \E a0 \in 0 .. bcm.Na - 1 : pmf_new[a0][0] + pmf_new[a0][1] = 0

(* ---------------- T run cell by cell (parallel=True) ------------------- *)
\* T is compiled with parallel=True: the (a0, s0) cells of one sweep run in
\* any order.  Here `work[k]` tells whether cell k has been written.
\* np.empty_like leaves the arrays with unspecified content that is never
\* read; the model holds 0 there.
Empty == [a0 \in 0 .. bcm.Na - 1 |-> [s0 \in 0 .. bcm.Ns - 1 |-> 0]]

\* (mutant) the sweep updates in place: a written cell is read back
SweepInputInPlace(vv, vn, wk) ==
    [a0 \in 0 .. bcm.Na - 1 |-> [s0 \in 0 .. bcm.Ns - 1 |->
        IF wk[a0 * bcm.Ns + s0] THEN vn[a0][s0] ELSE vv[a0][s0]]]

\* the array the cells of a sweep read at line 165: the input v
SweepInput(vv, vn, wk) == vv

\* the economies T is run cell by cell on
TConfigs == {m \in Configs : m.sigma = 2 /\ m.y_vals[0] = 2 * m.YDen}

InitT ==
    /\ bcm \in TConfigs
    /\ pc = "vi_start"
    /\ tol = 0
    /\ max_iter \in 1 .. MaxIter
    /\ verbose = TRUE
    /\ i = 0
    /\ error = 0
    /\ c = Unbound /\ u = Unbound /\ v = Unbound /\ v_new = Unbound
    /\ policy = Unbound /\ gamma = Unbound /\ pmf = Unbound
    /\ pmf_new = Unbound /\ work = Unbound /\ overlap = FALSE
    /\ out = {}
    /\ ret = NoReturn
    /\ gamma_new = Unbound /\ asset_policy = Unbound
    /\ v_bc = Unbound /\ v_nbc = Unbound /\ mu = Unbound

\* line 207 with the loop condition true, and lines 156-158
TBegin ==
    /\ pc = "vi_loop"
    /\ i < max_iter /\ error > tol
    /\ v_new' = Empty /\ policy' = Empty /\ gamma' = Empty
    /\ work' = [k \in CellIds(bcm) |-> FALSE]
    /\ pc' = "vi_sweep"
    /\ UNCHANGED <<bcm, tol, max_iter, verbose, i, error, c, u, v, pmf,
                   pmf_new, overlap, out, ret>>
    /\ UNCHANGED <<tiVars, welfareVars>>

\* lines 161-171 for cell k
TCell(k) ==
    /\ pc = "vi_sweep"
    /\ ~work[k]
    /\ LET a0 == CellA(bcm, k)
           s0 == CellS(bcm, k)
           r == BellmanCell(bcm, SweepInput(v, v_new, work), u, c, a0, s0)
       IN IF r.raised
          THEN /\ pc' = "done"
               /\ ret' = Raised("ValueError")
               /\ UNCHANGED <<v_new, policy, gamma, work>>
          ELSE /\ v_new' = [v_new EXCEPT ![a0][s0] = r.v_new]
               /\ policy' = [policy EXCEPT ![a0][s0] = r.policy]
               /\ gamma' = [gamma EXCEPT ![a0][s0] = r.gamma]
               /\ work' = [work EXCEPT ![k] = TRUE]
               /\ UNCHANGED <<pc, ret>>
    /\ UNCHANGED <<bcm, tol, max_iter, verbose, i, error, c, u, v, pmf,
                   pmf_new, overlap, out>>
    /\ UNCHANGED <<tiVars, welfareVars>>

\* line 173 and lines 209-213, once every cell is written
TEnd ==
    /\ pc = "vi_sweep"
    /\ \A k \in CellIds(bcm) : work[k]
    /\ error' = SupDist(bcm, v, v_new)
    /\ i' = i + 1
    /\ v' = v_new
    /\ pc' = "vi_loop"
    /\ UNCHANGED <<bcm, tol, max_iter, verbose, c, u, v_new, policy, gamma,
                   pmf, parVars, out, ret>>
    /\ UNCHANGED <<tiVars, welfareVars>>

NextT == VIStart \/ TBegin \/ (\E k \in CellIds(bcm) : TCell(k)) \/ TEnd
           \/ VIExit

SpecT == InitT /\ [][NextT]_vars

\* C5: in one call of T every written cell holds what the loop body computes
\* from the input v alone, unwritten cells are untouched, v is unchanged while
\* the sweep runs, whatever the order of the cells; and v is replaced by the
\* sweep's output only once every cell is written.
C5_SweepIsSynchronous ==
    /\ pc = "vi_sweep" =>
         \A k \in CellIds(bcm) :
            LET a0 == CellA(bcm, k)
                s0 == CellS(bcm, k)
                r == BellmanCell(bcm, v, u, c, a0, s0)
            IN IF work[k]
               THEN /\ v_new[a0][s0] = r.v_new
                    /\ policy[a0][s0] = r.policy
                    /\ gamma[a0][s0] = r.gamma
               ELSE /\ v_new[a0][s0] = 0
                    /\ policy[a0][s0] = 0
                    /\ gamma[a0][s0] = 0
    /\ (pc \in {"vi_loop", "vi_done"} /\ i >= 1) =>
         /\ \A k \in CellIds(bcm) : work[k]
         /\ v = v_new

\* the second sweep is half written, last cell first, and its output differs
\* from its input
C5_Witness ==
    /\ pc = "vi_sweep"
    /\ i = 1
    /\ work[bcm.Na * bcm.Ns - 1]
    /\ ~work[0]
    /\ v_new[bcm.Na - 1][bcm.Ns - 1] # v[bcm.Na - 1][bcm.Ns - 1]
    /\ policy[bcm.Na - 1][bcm.Ns - 1] > 0

(* ----------------------- constructing a model -------------------------- *)
\* the grid bounds a caller may pass
GridArgs == -2 .. 2

\* the grid resolutions a caller may pass
NaArgs == -1 .. MaxNa

InitConstruct ==
    /\ bcm = Unbound
    /\ pc = "new"
    /\ tol = 0
    /\ max_iter = 0
    /\ verbose = TRUE
    /\ i = 0
    /\ error = 0
    /\ c = Unbound /\ u = Unbound /\ v = Unbound /\ v_new = Unbound
    /\ policy = Unbound /\ gamma = Unbound /\ pmf = Unbound
    /\ pmf_new = Unbound /\ work = Unbound /\ overlap = FALSE
    /\ out = {}
    /\ ret = NoReturn
    /\ gamma_new = Unbound /\ asset_policy = Unbound
    /\ v_bc = Unbound /\ v_nbc = Unbound /\ mu = Unbound

\* bcm = BusinessCycleModel(period=, sigma=, business_cycle=, a_max=, a_min=,
\* Na=): the object exists iff __init__ returns
Construct ==
    /\ pc = "new"
    /\ \E period \in {0, WeeksPerYear}, sg \in {0, 1, 2},
          business_cycle \in BOOLEAN, a_max \in GridArgs, a_min \in GridArgs,
          Na \in NaArgs :
          LET m == BusinessCycleModel(period, 0, 0, 1, <<1, 4>>, <<199, 200>>,
                                      sg, business_cycle, a_max, a_min, Na)
          IN IF m.raised # "none"
             THEN /\ pc' = "done"
                  /\ ret' = Raised(m.raised)
                  /\ bcm' = bcm
             ELSE /\ pc' = "constructed"
                  /\ ret' = Returned
                  /\ bcm' = m
    /\ UNCHANGED <<tol, max_iter, verbose, i, error, c, u, v, v_new, policy,
                   gamma, pmf, parVars, out>>
    /\ UNCHANGED <<tiVars, welfareVars>>

NextConstruct == Construct

SpecConstruct == InitConstruct /\ [][NextConstruct]_vars

\* the invariant the solvers rely on
RowsSumToOne(m) ==
    \A s0 \in 0 .. m.Ns - 1 : SumTo([s1 \in 0 .. m.Ns - 1 |-> m.P[s0][s1]],
                                    m.Ns - 1) = m.PDen

WellFormed(m) ==
    /\ RowsSumToOne(m)
    /\ m.a_min <= 0 /\ 0 <= m.a_max
    /\ m.Na >= 2

\* C6: a model object that the constructor returned has rows of P summing to
\* 1, a_min <= 0 <= a_max and Na >= 2; every other configuration raised in
\* the constructor.
C6_MalformedConfigFailsFast == pc = "constructed" => WellFormed(bcm)

(* ------------------------ welfare comparison --------------------------- *)
\* a float that is a ratio n/d of integers is held as <<n, d>> in lowest
\* terms with d > 0; <<1, 0>> is inf
Frac(n, d) == LET g == Gcd(Abs(n), Abs(d))
                  sgn == IF d < 0 THEN -1 ELSE 1
              IN <<(sgn * n) \div g, (sgn * d) \div g>>

Inf == <<1, 0>>

QSub(x, y) == Frac(x[1] * y[2] - y[1] * x[2], x[2] * y[2])

QMul(x, y) == Frac(x[1] * y[1], x[2] * y[2])

QDiv(x, y) == Frac(x[1] * y[2], x[2] * y[1])

\* 1 - beta
OneMinusBeta(m) == Frac(m.beta[2] - m.beta[1], m.beta[2])

\* the risk aversions the comparison is asked for
WelfareSigmas == {0, 1, 2, 3}

\* the expected discounted utilities np.sum(pmf * v) the two solver runs of
\* compute_consumption_loss may come back with: CRRA utility has the sign
\* of 1 - sigma, log utility has either sign
ValueArgs(sigma) == IF sigma > 1 THEN {<<-3, 1>>, <<-2, 1>>, <<-1, 1>>}
                    ELSE IF sigma < 1 THEN {<<1, 1>>, <<2, 1>>, <<3, 1>>}
                    ELSE {<<-2, 1>>, <<-1, 1>>, <<1, 1>>, <<2, 1>>}

\* the sample means of income generate_mc_series may give: between y*theta
\* and y
IncomeArgs == {<<1, 2>>, <<3, 4>>, <<1, 1>>}

\* the two models of a comparison
WelfareModel(sigma, a_max, Na) ==
    BusinessCycleModel(WeeksPerYear, 0, 0, 1, <<1, 4>>, <<199, 200>>, sigma,
                       TRUE, a_max, 0, Na)

\* BCM_PI.calculate_discounted_utilities: the CRRA formula whatever sigma; a
\* numpy float divided by 1 - sigma = 0 is inf.  Of the model only sigma and
\* beta are read, which bc_pi and nbc_pi share.
calculate_discounted_utilities(m, ss_average_income) ==
    IF 1 - m.sigma = 0
    THEN Inf
    ELSE LET pw == IF m.sigma < 1
                   THEN <<Pow(ss_average_income[1], 1 - m.sigma),
                          Pow(ss_average_income[2], 1 - m.sigma)>>
                   ELSE <<Pow(ss_average_income[2], m.sigma - 1),
                          Pow(ss_average_income[1], m.sigma - 1)>>
             ss_average_utility == Frac(pw[1], pw[2] * (1 - m.sigma))
         IN QDiv(ss_average_utility, OneMinusBeta(m))

\* mu = e**x - 1
ExpMinusOne(x) == [form |-> "exp", arg |-> x]

\* mu = b**(1/k) - 1
RootMinusOne(b, k) == [form |-> "pow", base |-> b, root |-> k]

InitWelfare ==
    /\ bcm = Unbound
    /\ pc = "welfare"
    /\ tol = 0
    /\ max_iter = 0
    /\ verbose = FALSE
    /\ i = 0
    /\ error = 0
    /\ c = Unbound /\ u = Unbound /\ v = Unbound /\ v_new = Unbound
    /\ policy = Unbound /\ gamma = Unbound /\ pmf = Unbound
    /\ pmf_new = Unbound /\ work = Unbound /\ overlap = FALSE
    /\ out = {}
    /\ ret = NoReturn
    /\ gamma_new = Unbound /\ asset_policy = Unbound
    /\ v_bc = Unbound /\ v_nbc = Unbound /\ mu = Unbound

\* compute_consumption_loss(sigma, a_max, Na) up to line 694: the two models
\* are solved and their expected values taken
LossValues ==
    /\ pc = "welfare"
    /\ \E sigma \in WelfareSigmas, a_max \in 1 .. 2, Na \in 2 .. MaxNa :
          /\ bcm' = WelfareModel(sigma, a_max, Na)
          /\ v_bc' \in ValueArgs(sigma)
          /\ v_nbc' \in ValueArgs(sigma)
    /\ pc' = "loss_mu"
    /\ UNCHANGED <<tol, max_iter, verbose, i, error, c, u, v, v_new, policy,
                   gamma, pmf, parVars, out, ret, tiVars, mu>>

\* lines 696-700
LossMu ==
    /\ pc = "loss_mu"
    /\ mu' = IF bcm.sigma = 1
             THEN ExpMinusOne(QMul(QSub(v_nbc, v_bc), OneMinusBeta(bcm)))
             ELSE RootMinusOne(QDiv(v_nbc, v_bc), 1 - bcm.sigma)
    /\ ret' = Returned
    /\ pc' = "welfare_done"
    /\ UNCHANGED <<bcm, tol, max_iter, verbose, i, error, c, u, v, v_new,
                   policy, gamma, pmf, parVars, out, tiVars, v_bc, v_nbc>>

\* calculate_consumption_compensation(sigma) up to line 662
CompValues ==
    /\ pc = "welfare"
    /\ \E sigma \in WelfareSigmas, inc_bc \in IncomeArgs, inc_nbc \in IncomeArgs :
          LET bc_pi == WelfareModel(sigma, 8, 301)
          IN /\ bcm' = bc_pi
             /\ v_bc' = calculate_discounted_utilities(bc_pi, inc_bc)
             /\ v_nbc' = calculate_discounted_utilities(bc_pi, inc_nbc)
    /\ pc' = "comp_mu"
    /\ UNCHANGED <<tol, max_iter, verbose, i, error, c, u, v, v_new, policy,
                   gamma, pmf, parVars, out, ret, tiVars, mu>>

\* lines 664-665: 1/(1-sigma) on Python numbers raises for sigma = 1
CompMu ==
    /\ pc = "comp_mu"
    /\ IF 1 - bcm.sigma = 0
       THEN /\ ret' = Raised("ZeroDivisionError")
            /\ pc' = "done"
            /\ mu' = mu
       ELSE /\ mu' = RootMinusOne(QDiv(v_nbc, v_bc), 1 - bcm.sigma)
            /\ ret' = Returned
            /\ pc' = "welfare_done"
    /\ UNCHANGED <<bcm, tol, max_iter, verbose, i, error, c, u, v, v_new,
                   policy, gamma, pmf, parVars, out, tiVars, v_bc, v_nbc>>

NextWelfare == LossValues \/ LossMu \/ CompValues \/ CompMu

SpecWelfare == InitWelfare /\ [][NextWelfare]_vars

\* C10: every welfare computation ends with mu = exp((v_nbc - v_bc) *
\* (1 - beta)) - 1 when sigma = 1 and with mu = (v_nbc / v_bc) ** (1 / (1 -
\* sigma)) - 1 otherwise, from finite utilities, and none divides by
\* 1 - sigma = 0.
C10_LogUtilityHandled ==
    /\ ret.exc # "ZeroDivisionError"
    /\ pc \in {"loss_mu", "comp_mu", "welfare_done"} =>
          v_bc # Inf /\ v_nbc # Inf
    /\ pc = "welfare_done" =>
          mu = IF bcm.sigma = 1
               THEN ExpMinusOne(QMul(QSub(v_nbc, v_bc), OneMinusBeta(bcm)))
               ELSE RootMinusOne(QDiv(v_nbc, v_bc), 1 - bcm.sigma)

(* --------------------------- time iteration ---------------------------- *)
\* Assets, income and consumption are held in lattice units, TickRes to the
\* smallest unit of income; the root search's lower end 1e-8 is one lattice
\* unit and its tolerance is the lattice's resolution.  Marginal utility is
\* homogeneous, so the sign of the Euler residual is that of the model's.
Eps == 1

TicksPerUnit(m) == m.YDen * TickRes

\* a_vals[k] and y_vals[s] in lattice units
ATicks(m, k) == (m.a_vals[k] * TicksPerUnit(m)) \div GridDen(m.Na)

YTicks(m, s) == m.y_vals[s] * TickRes

QLess(x, y) == x[1] * y[2] < y[1] * x[2]

\* x + y and max(x, y) where x and y are finite or inf
QAddE(x, y) == IF x = Inf \/ y = Inf THEN Inf
               ELSE LET l == Lcm(x[2], y[2])
                    IN Frac(x[1] * (l \div x[2]) + y[1] * (l \div y[2]), l)

QMaxE(x, y) == IF x = Inf \/ y = Inf THEN Inf
               ELSE IF QLess(x, y) THEN y ELSE x

\* x * n / d for n, d > 0
QScale(x, n, d) == IF x = Inf THEN Inf ELSE Frac(x[1] * n, x[2] * d)

\* the sign of x - y; inf - inf is nan
DiffSign(x, y) == IF x = Inf /\ y = Inf THEN "nan"
                  ELSE IF x = Inf THEN "pos"
                  ELSE IF y = Inf THEN "neg"
                  ELSE IF QLess(y, x) THEN "pos"
                  ELSE IF QLess(x, y) THEN "neg"
                  ELSE "zero"

\* u_prime(c) = c**(-sigma) for an integer sigma; 0.0**(-sigma) is inf
u_prime(m, q) == IF q[1] = 0 THEN Inf
                 ELSE Frac(Pow(q[2], m.sigma), Pow(q[1], m.sigma))

\* interp(a_vals, gamma_vals[:, s1], x): linear between the grid points,
\* the end values outside the grid
interp(m, gamma_vals, s1, x) ==
    IF x <= ATicks(m, 0) THEN <<gamma_vals[0][s1], 1>>
    ELSE IF x >= ATicks(m, m.Na - 1) THEN <<gamma_vals[m.Na - 1][s1], 1>>
    ELSE LET k == CHOOSE j \in 0 .. m.Na - 2 :
                     ATicks(m, j) <= x /\ x < ATicks(m, j + 1)
             w == ATicks(m, k + 1) - ATicks(m, k)
         IN Frac(gamma_vals[k][s1] * w
                   + (gamma_vals[k + 1][s1] - gamma_vals[k][s1]) * (x - ATicks(m, k)),
                 w)

RECURSIVE EulerExpect(_, _, _, _, _)
\* expect after the states 0..s1 of the loop at lines 374-376
EulerExpect(m, gamma_vals, x, s, s1) ==
    IF s1 < 0 THEN <<0, 1>>
    ELSE QAddE(EulerExpect(m, gamma_vals, x, s, s1 - 1),
               QScale(u_prime(m, interp(m, gamma_vals, s1, x)),
                      m.P[s][s1], m.PDen))

\* the sign of euler_diff(c, a, s, gamma_vals), with c and a in lattice units
euler_diff(m, cc, a, s, gamma_vals) ==
    LET expect == EulerExpect(m, gamma_vals,
                              m.R_save * (a - cc + YTicks(m, s)), s, m.Ns - 1)
    IN DiffSign(u_prime(m, <<cc, 1>>),
                QMaxE(QScale(expect, m.beta[1] * m.R_save, m.beta[2]),
                      u_prime(m, <<a + YTicks(m, s), 1>>)))

\* the lattice points between the ends of a bracket, whichever is larger
Between(lo, hi) == IF lo <= hi THEN lo .. hi ELSE hi .. lo

\* brentq(euler_diff, lo, hi, args=(a, s, gamma_vals)): every outcome the
\* root search may have.  Residuals of one strict sign at both ends raise
\* ValueError("f(a) and f(b) must have different signs"); a zero at an end is
\* returned, hi first; otherwise the search ends at a point of the bracket
\* next to which the residual changes sign.  A nan residual (at hi = 0 only)
\* passes the sign test and the iteration runs on nan: it stops at hi, or
\* fails with RuntimeError("Failed to converge").
brentq(m, lo, hi, a, s, gamma_vals) ==
    LET f_a == euler_diff(m, lo, a, s, gamma_vals)
        f_b == euler_diff(m, hi, a, s, gamma_vals)
        pts == Between(lo, hi)
        f == TableOn([x \in pts |-> euler_diff(m, x, a, s, gamma_vals)],
                     IF lo <= hi THEN lo ELSE hi, IF lo <= hi THEN hi ELSE lo)
        Stop(x) == [raised |-> "none", root |-> x, f_a |-> f_a, f_b |-> f_b]
        Raise(e) == [raised |-> e, root |-> 0, f_a |-> f_a, f_b |-> f_b]
    IN IF "nan" \in {f_a, f_b} THEN {Raise("RuntimeError"), Stop(hi)}
       ELSE IF f_a = f_b /\ f_a # "zero" THEN {Raise("ValueError")}
       ELSE IF f_b = "zero" THEN {Stop(hi)}
       ELSE IF f_a = "zero" THEN {Stop(lo)}
       ELSE {Stop(x) : x \in {z \in pts : \E n \in pts \cap {z - 1, z + 1} :
                                  f[n] # f[z]}}

\* strictly positive transition matrices, as the constructor's are
PositiveMatrices == {p \in StochasticMatrices :
                        \A s0 \in 0 .. 1, s1 \in 0 .. 1 : p[s0][s1] > 0}

\* the economies time iteration is run on: an ascending grid from a_min
TIConfigs ==
    {[BusinessCycleModel(WeeksPerYear, 0, 0, 1, <<1, 2>>, <<1, 2>>, sg, FALSE,
                         amin + (na - 1), amin, na)
        EXCEPT !.P = p, !.PDen = PRes] :
        sg \in {1, 2}, amin \in {-2, -1, 0}, na \in 2 .. MaxNa,
        p \in PositiveMatrices}

InitTI ==
    /\ bcm \in TIConfigs
    /\ pc = "ti_start"
    /\ tol \in {0, TickRes}
    /\ max_iter \in 0 .. MaxIter
    /\ verbose \in BOOLEAN
    /\ i = 0
    /\ error = 0
    /\ c = Unbound /\ u = Unbound /\ v = Unbound /\ v_new = Unbound
    /\ policy = Unbound /\ gamma = Unbound /\ pmf = Unbound
    /\ pmf_new = Unbound /\ work = Unbound /\ overlap = FALSE
    /\ out = {}
    /\ ret = NoReturn
    /\ gamma_new = Unbound /\ asset_policy = Unbound
    /\ v_bc = Unbound /\ v_nbc = Unbound /\ mu = Unbound

\* solve_model_time_iter, lines 416-423
TIStart ==
    /\ pc = "ti_start"
    /\ gamma' = [a0 \in 0 .. bcm.Na - 1 |->
                   [s \in 0 .. bcm.Ns - 1 |-> ATicks(bcm, a0)]]
    /\ i' = 0
    /\ error' = tol + 1
    /\ pc' = "ti_loop"
    /\ UNCHANGED <<bcm, tol, max_iter, verbose, c, u, v, v_new, policy, pmf,
                   parVars, out, ret, tiVars, welfareVars>>

\* line 425 with the loop condition true, and lines 386-387 of K; `work`
\* records, for each grid point searched in this call of K, the bracket, the
\* residual's signs at its ends and whether a root was recorded
KBegin ==
    /\ pc = "ti_loop"
    /\ i < max_iter /\ error > tol
    /\ gamma_new' = Empty
    /\ asset_policy' = Empty
    /\ work' = << >>
    /\ pc' = "ti_K"
    /\ UNCHANGED <<bcm, tol, max_iter, verbose, i, error, c, u, v, v_new,
                   policy, gamma, pmf, pmf_new, overlap, out, ret,
                   welfareVars>>

\* what `work` keeps of a root search
Searched(lo, hi, result) ==
    [lo |-> lo, hi |-> hi, f_a |-> result.f_a, f_b |-> result.f_b,
     recorded |-> result.raised = "none"]

\* lines 388-393 for the next grid point of the two loops
KCell ==
    /\ pc = "ti_K"
    /\ LET k == Cardinality(DOMAIN work)
           a0 == CellA(bcm, k)
           s == CellS(bcm, k)
           a == ATicks(bcm, a0)
           hi == a + YTicks(bcm, s)
       IN /\ k \in CellIds(bcm)
          /\ \E result \in brentq(bcm, Eps, hi, a, s, gamma) :
                IF result.raised # "none"
                THEN /\ ret' = Raised(result.raised)
                     /\ pc' = "done"
                     /\ work' = work @@ (k :> Searched(Eps, hi, result))
                     /\ UNCHANGED <<gamma_new, asset_policy>>
                ELSE /\ gamma_new' = [gamma_new EXCEPT ![a0][s] = result.root]
                     /\ asset_policy' =
                          [asset_policy EXCEPT
                             ![a0][s] = bcm.R_save * (a - result.root + YTicks(bcm, s))]
                     /\ work' = work @@ (k :> Searched(Eps, hi, result))
                     /\ UNCHANGED <<pc, ret>>
    /\ UNCHANGED <<bcm, tol, max_iter, verbose, i, error, c, u, v, v_new,
                   policy, gamma, pmf, pmf_new, overlap, out, welfareVars>>

\* line 395 and lines 427-431, once every grid point has its root
KEnd ==
    /\ pc = "ti_K"
    /\ DOMAIN work = CellIds(bcm)
    /\ error' = SetMax({Abs(gamma[x[1]][x[2]] - gamma_new[x[1]][x[2]]) :
                          x \in Cells(bcm)})
    /\ i' = i + 1
    /\ gamma' = gamma_new
    /\ pc' = "ti_loop"
    /\ UNCHANGED <<bcm, tol, max_iter, verbose, c, u, v, v_new, policy, pmf,
                   parVars, out, ret, tiVars, welfareVars>>

\* lines 433-439
TIExit ==
    /\ pc = "ti_loop"
    /\ ~(i < max_iter /\ error > tol)
    /\ out' = (IF i = max_iter THEN {Failed} ELSE {})
                 \cup (IF verbose THEN {Converged} ELSE {})
    /\ ret' = IF IsBound(gamma_new) THEN Returned
              ELSE Raised("UnboundLocalError")
    /\ pc' = "ti_done"
    /\ UNCHANGED <<bcm, tol, max_iter, verbose, i, error, c, u, v, v_new,
                   policy, gamma, pmf, parVars, tiVars, welfareVars>>

NextTI == TIStart \/ KBegin \/ KCell \/ KEnd \/ TIExit

SpecTI == InitTI /\ [][NextTI]_vars

\* the residual has a sign change on the bracket searched: its signs at the
\* two ends are known and are not one strict sign
SignChange(w) == /\ "nan" \notin {w.f_a, w.f_b}
                 /\ ~(w.f_a = w.f_b /\ w.f_a # "zero")

\* C7: every grid point (a, s) searched in K has a valid bracket, 1e-8 <
\* a + y(s); a grid point whose bracket has no sign change records no
\* consumption value, and the call then ended in an error that names that
\* grid point.
C7_RootBracketGuarded ==
    pc \in {"ti_K", "ti_loop", "ti_done", "done"} =>
      \A k \in DOMAIN work :
         /\ work[k].lo < work[k].hi
         /\ ~SignChange(work[k]) =>
               /\ ~work[k].recorded
               /\ ret.kind = "raised"
               /\ "at" \in DOMAIN ret
               /\ ret.at = <<CellA(bcm, k), CellS(bcm, k)>>

(* ------------------------- the claims, on Spec ------------------------- *)
\* a solver has left its loop
AtExit == pc \in {"vi_done", "dist_done"}

\* C2: a solver that leaves its loop because i reached max_iter with the error
\* still above tol returns normally, and what it returns is the iterate of the
\* last sweep it ran (the initial iterate if it ran none).
C2_NonConvergenceStillReturns ==
    (AtExit /\ i = max_iter /\ error > tol)
        => /\ ret.kind = "returned"
           /\ pc = "vi_done" => (i = 0 \/ v = v_new)
           /\ pc = "dist_done" => IsBound(pmf)

\* C3: the failure report is printed exactly when max_iter was exhausted with
\* the last error still above tol, the convergence report only when the error
\* reached tol, and no run prints both.
C3_ReportAgreesWithOutcome ==
    AtExit => /\ (Failed \in out) <=> (i = max_iter /\ error > tol)
              /\ (Converged \in out) => error <= tol
              /\ ~(Failed \in out /\ Converged \in out)

\* C8: the asset policy of every sweep of T is non-decreasing in current
\* assets for each fixed state.
C8_PolicyMonotone ==
    IsBound(policy) =>
        \A s0 \in 0 .. bcm.Ns - 1 :
            \A a0 \in 0 .. bcm.Na - 1, b0 \in 0 .. bcm.Na - 1 :
                a0 <= b0 => policy[a0][s0] <= policy[b0][s0]

\* a sweep has produced a policy that rises strictly with assets and is
\* interior somewhere
C8_Witness ==
    /\ IsBound(policy)
    /\ i >= 2
    /\ \E s0 \in 0 .. bcm.Ns - 1 :
         \E a0 \in 0 .. bcm.Na - 1, b0 \in 0 .. bcm.Na - 1 :
             /\ a0 < b0
             /\ policy[a0][s0] < policy[b0][s0]
             /\ policy[b0][s0] < bcm.Na - 1

\* the asset indices some cell's policy leads to
PolicyImage == {policy[x[1]][x[2]] : x \in Cells(bcm)}

\* C9: every policy entry returned by value iteration is an index in
\* 0..Na-1, so every mass write of dist_iter targets a slot of the PMF, and
\* after every sweep the PMF is non-negative with positive mass only on asset
\* indices in the image of the policy.
C9_SupportWithinGrid ==
    /\ (pc \in {"vi_done", "dist_start", "dist_loop", "dist_done"}
          /\ IsBound(policy))
         => \A x \in Cells(bcm) : policy[x[1]][x[2]] \in 0 .. bcm.Na - 1
    /\ (pc \in {"dist_loop", "dist_done"} /\ i >= 1)
         => \A x \in Cells(bcm) :
               /\ pmf[x[1]][x[2]] >= 0
               /\ pmf[x[1]][x[2]] > 0 => x[1] \in PolicyImage

\* distribution iteration has swept twice over a policy from value iteration
\* that leaves part of the grid without mass
C9_Witness ==
    /\ pc = "dist_done"
    /\ i >= 2
    /\ Cardinality(PolicyImage) >= 2
    /\ \E a0 \in 0 .. bcm.Na - 1 : a0 \notin PolicyImage

\* the value-iteration call has tabulated c and u
Tabulated == pc \in {"vi_loop", "vi_done", "done"} /\ IsBound(c)

\* C11: for every (a0, s0) of a model with an ascending grid and positive
\* returns, the next-asset indices with positive consumption are a non-empty
\* prefix 0..a1_max of the grid, so that T finds its scan bound, no candidate
\* it evaluates carries the sentinel utility, and the consumption of the
\* chosen index is strictly positive.
C11_FeasibleScanIsPrefix ==
    Tabulated =>
      /\ ret.exc # "ValueError"
      /\ \A x \in Cells(bcm) :
            LET F == Feasible(bcm, c, x[1], x[2])
            IN /\ F # {}
               /\ F = 0 .. SetMax(F)
               /\ \A a1 \in F : u[x[1]][x[2]][a1] # Sentinel
               /\ IsBound(gamma) => gamma[x[1]][x[2]] > 0

\* u[a0,s0,a1] + beta * sum over s1 of P[s0,s1] * v[a1,s1], in the units of
\* the value function
GreedyValue(a0, s0, a1) ==
    u[a0][s0][a1] * VDen(bcm)
      + (bcm.beta[1] * (bcm.P[s0][0] * v[a1][0] + bcm.P[s0][1] * v[a1][1]))
           \div (bcm.beta[2] * bcm.PDen)

\* gamma = a_vals[a0] + y_vals[s0] - a_vals[a1] / R with R the return on
\* a_vals[a1], cleared of denominators
BudgetIdentity(g, a0, s0, a1) ==
    LET R == IF bcm.a_vals[a1] >= 0 THEN bcm.R_save ELSE bcm.R_borrow
        RR == bcm.R_save * bcm.R_borrow
    IN g * R = R * RR * (bcm.a_vals[a0] * bcm.YDen
                           + bcm.y_vals[s0] * GridDen(bcm.Na))
                 - RR * bcm.a_vals[a1] * bcm.YDen

\* C12: every cell (a0, s0) that a sweep of T has written holds the greedy
\* update from the input v: v_new is the largest candidate value over the
\* indices 0..a1_max, policy is the smallest index attaining it, and gamma is
\* the budget-identity consumption at that index, which is the tabulated c.
C12_GreedyUpdate ==
    pc = "vi_sweep" =>
      \A k \in CellIds(bcm) : work[k] =>
         LET a0 == CellA(bcm, k)
             s0 == CellS(bcm, k)
             a1_max == SetMax({a1 \in 0 .. bcm.Na - 1 : c[a0][s0][a1] > 0})
             a1 == policy[a0][s0]
         IN /\ a1 \in 0 .. a1_max
            /\ v_new[a0][s0] = GreedyValue(a0, s0, a1)
            /\ \A j \in 0 .. a1_max : GreedyValue(a0, s0, j) <= v_new[a0][s0]
            /\ \A j \in 0 .. a1 - 1 : GreedyValue(a0, s0, j) < v_new[a0][s0]
            /\ gamma[a0][s0] = c[a0][s0][a1]
            /\ BudgetIdentity(gamma[a0][s0], a0, s0, a1)

\* a sweep from a non-zero v has written every cell, one of them choosing an
\* index above 0 and one of them the smaller of two indices of equal value
C12_Witness ==
    /\ pc = "vi_sweep"
    /\ i >= 1
    /\ \A k \in CellIds(bcm) : work[k]
    /\ \E x \in Cells(bcm) : policy[x[1]][x[2]] > 0
    /\ \E x \in Cells(bcm) : \E j \in 0 .. bcm.Na - 1 :
          /\ j > policy[x[1]][x[2]]
          /\ c[x[1]][x[2]][j] > 0
          /\ GreedyValue(x[1], x[2], j) = v_new[x[1]][x[2]]

(* ------------------- the three solver loops together ------------------- *)
\* the max_iter arguments a solver is called with: any finite number
MaxIterArgs == -1 .. MaxIter

\* the economies each solver is called on
LoopVIConfigs == {m \in Configs : m.sigma = 2}

LoopTIConfigs == {m \in TIConfigs : m.Na = 2}

\* a call of solve_model_value_iteration, of solve_invariant_dist or of
\* solve_model_time_iter
InitLoops ==
    /\ max_iter \in MaxIterArgs
    /\ verbose = TRUE
    /\ i = 0
    /\ error = 0
    /\ c = Unbound /\ u = Unbound /\ v = Unbound /\ v_new = Unbound
    /\ gamma = Unbound /\ pmf = Unbound
    /\ pmf_new = Unbound /\ work = Unbound /\ overlap = FALSE
    /\ out = {}
    /\ ret = NoReturn
    /\ gamma_new = Unbound /\ asset_policy = Unbound
    /\ v_bc = Unbound /\ v_nbc = Unbound /\ mu = Unbound
    /\ \/ /\ pc = "vi_start"
          /\ bcm \in LoopVIConfigs
          /\ tol \in {(q * ValueOne(bcm)) \div 4 : q \in TolQuarters}
          /\ policy = Unbound
       \/ /\ pc = "dist_start"
          /\ bcm \in {DistConfig(2, p) : p \in StochasticMatrices}
          /\ tol \in {0, MassDen(bcm) \div 4}
          /\ policy \in Policies(bcm)
       \/ /\ pc = "ti_start"
          /\ bcm \in LoopTIConfigs
          /\ tol \in {0, TickRes}
          /\ policy = Unbound

NextLoops == VIStart \/ VISweep \/ VIExit
               \/ DistStart \/ DistSweep \/ DistExit
               \/ TIStart \/ KBegin \/ KCell \/ KEnd \/ TIExit

\* a solver's while loop has been left
LoopExited == pc \in {"vi_done", "dist_done", "ti_done"}

\* the call is over: the loop was left, or the operator raised
Ended == LoopExited \/ (pc = "done" /\ ret.kind = "raised")

\* the control skeleton of a running call: the interpreter moves to another
\* statement of the solver, or the sweep counter advances
Runs ==
    /\ ~Ended
    /\ pc' \in {"vi_loop", "vi_done", "dist_loop", "dist_done",
               "ti_loop", "ti_K", "ti_done", "done"}
    /\ i' \in {i, i + 1}

\* a call runs on by itself: the solvers are single-threaded, nothing
\* suspends or cancels them, and every statement of T, dist_iter and K
\* finishes (a sweep is a bounded pass over the grid cells), so a call that
\* has not ended reaches its next statement
SpecLoops == InitLoops /\ [][NextLoops]_vars /\ WF_<<pc, i>>(Runs)

\* a step that completes one sweep of T, of dist_iter or of K
SweepDone == \/ pc = "vi_loop" /\ pc' = "vi_loop"
             \/ pc = "dist_loop" /\ pc' = "dist_loop"
             \/ pc = "ti_K" /\ pc' = "ti_loop"

\* the counter moves with the sweeps and only with them, by exactly 1
CountsSweeps == /\ SweepDone => i' = i + 1
                /\ i' # i => SweepDone

\* C13, as stated: for any tolerance and any finite max_iter each solver runs
\* at most max_iter sweeps, i increases by exactly 1 per sweep, and the loop
\* eventually exits with error <= tol or i = max_iter.
C13_LoopsEndOnCap ==
    /\ [](i <= max_iter)
    /\ [][CountsSweeps]_vars
    /\ <>(LoopExited /\ (error <= tol \/ i = max_iter))

\* C13, amended: for any tolerance and any max_iter >= 0 each solver runs at
\* most max_iter sweeps (none for max_iter < 0), i increases by exactly 1 per
\* sweep, and the call eventually ends: the loop exits with error <= tol or
\* i = max_iter (for max_iter < 0, at once with i = 0 and error > tol),
\* or the operator raises.
C13_LoopsEndOnCapOrRaise ==
    /\ [](0 <= i /\ i <= Max2(max_iter, 0))
    /\ [][CountsSweeps]_vars
    /\ [](LoopExited => \/ error <= tol
                        \/ i = max_iter
                        \/ max_iter < 0 /\ i = 0 /\ error > tol)
    /\ <>Ended

\* each solver has left its loop on the cap, after MaxIter sweeps and with
\* the error still above tol
C13_Witness ==
    /\ LoopExited
    /\ max_iter = MaxIter
    /\ i = max_iter
    /\ error > tol

====
